---- MODULE Spec2Model ----
(***************************************************************************)
(* Model of the HTML asset handler, sdk/src/asset_handlers/html_io.rs.     *)
(*                                                                         *)
(* A document is a sequence of lexemes.  Every lexeme is the text it       *)
(* stands for, so Len(lexeme) is its length in bytes and byte offsets are  *)
(* sums of lexeme lengths.  The three regular expressions of the handler   *)
(* are evaluated on lexemes: a lexeme is never split, and no pattern       *)
(* literal can straddle two lexemes of the alphabet used here.             *)
(***************************************************************************)
EXTENDS Integers, Sequences, FiniteSets, TLC

VARIABLES
    asset,          \* the document behind the caller's input stream / asset path
    pos,            \* read position of the caller's input stream, in lexemes
    output,         \* what the last handler wrote to its output stream
    result,         \* what the last handler returned
    hist,           \* the handlers run so far, with arguments and results
    pc,             \* save_cai_store / remove_cai_store: where the handler stands
    orig,           \* the asset file as it was when the running handler started
    updated_html,   \* the full document the running handler has to write
    temp_file       \* the temporary file of the running handler

vars == <<asset, pos, output, result, hist, pc, orig, updated_html, temp_file>>

(***************************************************************************)
(* Bounds                                                                  *)
(***************************************************************************)
MaxFrags == 2        \* a document is at most this many fragments long
MaxOps == 2          \* handlers run one after the other on one asset

(***************************************************************************)
(* Lexemes                                                                 *)
(***************************************************************************)
SCRIPT_OPEN  == "<script"
SCRIPT_CLOSE == "</script>"
TYPE_DQ      == "type=\"application/c2pa-manifest\""
TYPE_SQ      == "type='application/c2pa-manifest'"
TYPE_UPPER   == "TYPE=\"application/c2pa-manifest\""
GT           == ">"
SP           == " "
BODY_CLOSE   == "</body>"
HEAD_TAG     == "<head>"
BANG         == "!"

\* the lexemes that hold the character '>'; each holds it as its last character
HasGt(t) == t \in {GT, SCRIPT_CLOSE, BODY_CLOSE, HEAD_TAG}

\* \s of the regex crate and char::is_whitespace of str::trim
IsSpace(t) == t = SP

Min(S) == CHOOSE x \in S : \A y \in S : x <= y
Max(S) == CHOOSE x \in S : \A y \in S : x >= y

\* byte offset of the end of lexeme i of html (0 for i = 0)
RECURSIVE ByteOffset(_, _)
ByteOffset(html, i) == IF i = 0 THEN 0 ELSE Len(html[i]) + ByteOffset(html, i - 1)

ByteLen(s) == ByteOffset(s, Len(s))

(***************************************************************************)
(* base64::engine::general_purpose::STANDARD                               *)
(***************************************************************************)
B64_ALPHABET ==
    << "A","B","C","D","E","F","G","H","I","J","K","L","M","N","O","P",
       "Q","R","S","T","U","V","W","X","Y","Z","a","b","c","d","e","f",
       "g","h","i","j","k","l","m","n","o","p","q","r","s","t","u","v",
       "w","x","y","z","0","1","2","3","4","5","6","7","8","9","+","/" >>
PAD == "="

B64Symbols == {B64_ALPHABET[i] : i \in DOMAIN B64_ALPHABET}
B64Char(v) == B64_ALPHABET[v + 1]
B64Value(c) == (CHOOSE i \in DOMAIN B64_ALPHABET : B64_ALPHABET[i] = c) - 1

\* the symbols for the bytes of b from byte i on
RECURSIVE EncodeFrom(_, _)
EncodeFrom(b, i) ==
    IF Len(b) < i THEN <<>>
    ELSE IF Len(b) = i THEN
        << B64Char(b[i] \div 4), B64Char((b[i] % 4) * 16), PAD, PAD >>
    ELSE IF Len(b) = i + 1 THEN
        << B64Char(b[i] \div 4), B64Char((b[i] % 4) * 16 + b[i + 1] \div 16),
           B64Char((b[i + 1] % 16) * 4), PAD >>
    ELSE
        << B64Char(b[i] \div 4), B64Char((b[i] % 4) * 16 + b[i + 1] \div 16),
           B64Char((b[i + 1] % 16) * 4 + b[i + 2] \div 64), B64Char(b[i + 2] % 64) >>
        \o EncodeFrom(b, i + 3)

STANDARD_encode(b) == EncodeFrom(b, 1)

\* the bytes of the symbols of c from symbol i on, c without its padding:
\* 4, 3 or 2 symbols a group
RECURSIVE DecodeGroups(_, _)
DecodeGroups(c, i) ==
    IF Len(c) < i + 1 THEN <<>>
    ELSE LET v(k) == B64Value(c[i + k]) IN
        IF Len(c) = i + 1 THEN << v(0) * 4 + v(1) \div 16 >>
        ELSE IF Len(c) = i + 2 THEN
            << v(0) * 4 + v(1) \div 16, (v(1) % 16) * 16 + v(2) \div 4 >>
        ELSE
            << v(0) * 4 + v(1) \div 16, (v(1) % 16) * 16 + v(2) \div 4,
               (v(2) % 4) * 64 + v(3) >>
            \o DecodeGroups(c, i + 4)

\* STANDARD.decode: canonical padding is required, trailing bits must be zero
STANDARD_decode(c) ==
    LET n    == Len(c)
        npad == IF n >= 2 /\ c[n] = PAD /\ c[n - 1] = PAD THEN 2
                ELSE IF n >= 1 /\ c[n] = PAD THEN 1 ELSE 0
        data == SubSeq(c, 1, n - npad)
        last == B64Value(data[Len(data)])
        ok   == /\ n % 4 = 0
                /\ \A i \in 1..Len(data) : data[i] \in B64Symbols
                /\ npad = 1 => last % 4 = 0
                /\ npad = 2 => last % 16 = 0
    IN  IF ok THEN [ok |-> TRUE, bytes |-> DecodeGroups(data, 1)]
        ELSE [ok |-> FALSE, bytes |-> <<>>]

(***************************************************************************)
(* The regular expressions                                                 *)
(***************************************************************************)
\* type=["']application/c2pa-manifest["'] : no (?i), the keyword is lower case
IsTypeAttr(t) == t \in {TYPE_DQ, TYPE_SQ}

\* index of the first lexeme after i that holds '>', 0 if there is none
FirstGt(html, i) ==
    LET S == {j \in (i + 1)..Len(html) : HasGt(html[j])}
    IN  IF S = {} THEN 0 ELSE Min(S)

\* <script[^>]*type=["']application/c2pa-manifest["'][^>]*> tried at lexeme i:
\* the index of the lexeme whose '>' ends the tag, 0 if the tag does not match
ScriptTagEnd(html, i) ==
    IF html[i] # SCRIPT_OPEN THEN 0
    ELSE LET j == FirstGt(html, i)
         IN  IF j # 0 /\ \E k \in (i + 1)..(j - 1) : IsTypeAttr(html[k])
             THEN j ELSE 0

\* (.*?)</script> : the first closing tag after lexeme j, 0 if there is none
ScriptCloseAfter(html, j) ==
    LET S == {k \in (j + 1)..Len(html) : html[k] = SCRIPT_CLOSE}
    IN  IF S = {} THEN 0 ELSE Min(S)

NoMatch == [found |-> FALSE, start |-> 0, open_end |-> 0, end |-> 0]

\* C2PA_REGEX_CAPTURE, leftmost match starting at lexeme from or later.
\* start..end is the whole match, open_end+1..end-1 is capture group 1.
CaptureFrom(html, from) ==
    LET S == {i \in from..Len(html) :
                 /\ ScriptTagEnd(html, i) # 0
                 /\ ScriptCloseAfter(html, ScriptTagEnd(html, i)) # 0}
    IN  IF S = {} THEN NoMatch
        ELSE LET i == Min(S)
                 j == ScriptTagEnd(html, i)
             IN  [found |-> TRUE, start |-> i, open_end |-> j,
                  end |-> ScriptCloseAfter(html, j)]

C2PA_REGEX_CAPTURE(html) == CaptureFrom(html, 1)

\* the start of the run of white space that ends right before lexeme i
LeadingSpace(html, i) ==
    Min({p \in 1..i : \A q \in p..(i - 1) : IsSpace(html[q])})

\* the end of the run of white space that starts right after lexeme k
TrailingSpace(html, k) ==
    Max({p \in k..Len(html) : \A q \in (k + 1)..p : IsSpace(html[q])})

\* C2PA_REGEX_FULL, leftmost match: the marker with the white space around it
C2PA_REGEX_FULL(html) ==
    LET m == C2PA_REGEX_CAPTURE(html)
    IN  IF ~m.found THEN NoMatch
        ELSE [found |-> TRUE, start |-> LeadingSpace(html, m.start),
              open_end |-> m.open_end, end |-> TrailingSpace(html, m.end)]

\* (?i)\s*</body> , leftmost match
re_body(html) ==
    LET S == {b \in 1..Len(html) : html[b] = BODY_CLOSE}
    IN  IF S = {} THEN NoMatch
        ELSE [found |-> TRUE, start |-> LeadingSpace(html, Min(S)),
              open_end |-> 0, end |-> Min(S)]

\* (?i)<head[^>]*> , leftmost match
HTML_HEAD_TAG(html) ==
    LET S == {h \in 1..Len(html) : html[h] = HEAD_TAG}
    IN  IF S = {} THEN NoMatch
        ELSE [found |-> TRUE, start |-> Min(S), open_end |-> 0, end |-> Min(S)]

\* Regex::replace: the first match only
replace(html, m, rep) ==
    SubSeq(html, 1, m.start - 1) \o rep \o SubSeq(html, m.end + 1, Len(html))

\* str::trim_end and str::trim
trim_end(s) ==
    SubSeq(s, 1, Min({n \in 0..Len(s) : \A q \in (n + 1)..Len(s) : IsSpace(s[q])}))
trim_start(s) ==
    SubSeq(s, Max({n \in 1..(Len(s) + 1) : \A q \in 1..(n - 1) : IsSpace(s[q])}), Len(s))
trim(s) == trim_start(trim_end(s))

(***************************************************************************)
(* The handlers as functions of the document text                          *)
(***************************************************************************)
\* variant: the payload encoded without padding (STANDARD_NO_PAD)
manifest_script_no_pad(store_bytes) ==
    <<SCRIPT_OPEN, SP, TYPE_DQ, GT>>
    \o SelectSeq(STANDARD_encode(store_bytes), LAMBDA c : c # PAD)
    \o <<SCRIPT_CLOSE>>

\* format!(r#"<script type="{C2PA_SCRIPT_TYPE}">{manifest_b64}</script>"#)
manifest_script(store_bytes) ==
    <<SCRIPT_OPEN, SP, TYPE_DQ, GT>> \o STANDARD_encode(store_bytes) \o <<SCRIPT_CLOSE>>

\* variant: an existing marker is not replaced
WriteCaiNoReplace(input_html, store_bytes) ==
    IF re_body(input_html).found THEN
        replace(input_html, re_body(input_html),
                manifest_script(store_bytes) \o <<BODY_CLOSE>>)
    ELSE
        trim_end(input_html) \o manifest_script(store_bytes)

\* write_cai: the document written to the output stream
WriteCai(input_html, store_bytes) ==
    IF C2PA_REGEX_FULL(input_html).found THEN
        replace(input_html, C2PA_REGEX_FULL(input_html), manifest_script(store_bytes))
    ELSE IF re_body(input_html).found THEN
        replace(input_html, re_body(input_html),
                manifest_script(store_bytes) \o <<BODY_CLOSE>>)
    ELSE
        trim_end(input_html) \o manifest_script(store_bytes)

\* variant: only the body of the marker is deleted
RemoveCaiBodyOnly(html) ==
    LET m == C2PA_REGEX_CAPTURE(html)
    IN  IF m.found
        THEN SubSeq(html, 1, m.open_end) \o SubSeq(html, m.end, Len(html))
        ELSE html

\* remove_cai_store_from_stream: the document written to the output stream,
\* html being what read_to_string returned
RemoveCai(html) ==
    IF C2PA_REGEX_FULL(html).found
    THEN replace(html, C2PA_REGEX_FULL(html), <<>>)
    ELSE html

\* insertion_point = encoded.start()
InsertionPoint(html, caps) == ByteOffset(html, caps.open_end)

\* variant: a body that does not decode counts as no manifest
detect_manifest_location_lenient(html) ==
    LET caps    == C2PA_REGEX_CAPTURE(html)
        trimmed == trim(SubSeq(html, caps.open_end + 1, caps.end - 1))
        head    == HTML_HEAD_TAG(html)
    IN  IF caps.found /\ trimmed # <<>> /\ STANDARD_decode(trimmed).ok THEN
            [err |-> FALSE, some |-> TRUE, data |-> STANDARD_decode(trimmed).bytes,
             insertion_point |-> InsertionPoint(html, caps)]
        ELSE
            [err |-> FALSE, some |-> FALSE, data |-> <<>>,
             insertion_point |-> IF head.found THEN ByteOffset(html, head.end) ELSE 0]

\* detect_manifest_location: Err(InvalidAsset) or Ok((output, insertion_point))
detect_manifest_location(html) ==
    LET caps    == C2PA_REGEX_CAPTURE(html)
        encoded == SubSeq(html, caps.open_end + 1, caps.end - 1)
        trimmed == trim(encoded)
        head    == HTML_HEAD_TAG(html)
        no_manifest ==
            [err |-> FALSE, some |-> FALSE, data |-> <<>>,
             insertion_point |-> IF head.found THEN ByteOffset(html, head.end) ELSE 0]
    IN  IF caps.found /\ trimmed # <<>> THEN
            IF STANDARD_decode(trimmed).ok THEN
                [err |-> FALSE, some |-> TRUE, data |-> STANDARD_decode(trimmed).bytes,
                 insertion_point |-> InsertionPoint(html, caps)]
            ELSE [err |-> TRUE, some |-> FALSE, data |-> <<>>, insertion_point |-> 0]
        ELSE no_manifest

Ok(data, regions) == [tag |-> "Ok", data |-> data, regions |-> regions]
Err(tag) == [tag |-> tag, data |-> <<>>, regions |-> <<>>]

\* read_cai
ReadCai(html) ==
    LET d == detect_manifest_location(html)
    IN  IF d.err THEN Err("InvalidAsset")
        ELSE IF d.some /\ d.data # <<>> THEN Ok(d.data, <<>>)
        ELSE Err("JumbfNotFound")

\* "placeholder manifest".as_bytes()
PLACEHOLDER ==
    <<112, 108, 97, 99, 101, 104, 111, 108, 100, 101, 114, 32,
      109, 97, 110, 105, 102, 101, 115, 116>>

\* add_required_segs_to_stream: Err, or the document written to the buffer
add_required_segs_to_stream(html) ==
    LET d == detect_manifest_location(html)
        need_manifest == IF d.some THEN d.data = <<>> ELSE TRUE
    IN  IF d.err THEN [err |-> TRUE, buffer |-> <<>>]
        ELSE IF need_manifest THEN [err |-> FALSE, buffer |-> WriteCai(html, PLACEHOLDER)]
        ELSE [err |-> FALSE, buffer |-> html]

\* variant: the last region runs from start + b64_len for html_len - start bytes
HashRegionsLongTail(start, b64_len, html_len) ==
    << [offset |-> start, length |-> b64_len, htype |-> "Cai"],
       [offset |-> 0, length |-> start, htype |-> "Other"],
       [offset |-> start + b64_len,
        length |-> IF html_len >= start THEN html_len - start ELSE 0,
        htype |-> "Other"] >>

\* the vec! of HashObjectPositions
HashRegions(start, b64_len, html_len) ==
    << [offset |-> start, length |-> b64_len, htype |-> "Cai"],
       [offset |-> 0, length |-> start, htype |-> "Other"],
       [offset |-> start + b64_len,
        length |-> IF html_len >= start + b64_len THEN html_len - (start + b64_len) ELSE 0,
        htype |-> "Other"] >>

\* variant: start is the insertion point found in the input, not in the buffer
GetObjectLocationsOfInput(html) ==
    LET Located(a, d) ==
            IF a.err \/ d.err THEN Err("InvalidAsset")
            ELSE IF ~d.some THEN Err("JumbfNotFound")
            ELSE Ok(<<>>, HashRegions(detect_manifest_location(html).insertion_point,
                                      Len(STANDARD_encode(d.data)),
                                      ByteLen(a.buffer)))
    IN  CHOOSE r \in UNION {{Located(a, d) : d \in {detect_manifest_location(a.buffer)}} :
                                a \in {add_required_segs_to_stream(html)}} : TRUE

\* get_object_locations_from_stream
\* (a and d are bound once each: the buffer and the result of its scan)
GetObjectLocations(html) ==
    LET Located(a, d) ==
            IF a.err \/ d.err THEN Err("InvalidAsset")
            ELSE IF ~d.some THEN Err("JumbfNotFound")
            ELSE Ok(<<>>, HashRegions(d.insertion_point,
                                      Len(STANDARD_encode(d.data)),
                                      ByteLen(a.buffer)))
    IN  CHOOSE r \in UNION {{Located(a, d) : d \in {detect_manifest_location(a.buffer)}} :
                                a \in {add_required_segs_to_stream(html)}} : TRUE

(***************************************************************************)
(* Inputs                                                                  *)
(***************************************************************************)
B64_AB == <<"Q", "U", "I", "=">>        \* STANDARD.encode(b"AB")

Fragments ==
    { <<SCRIPT_OPEN, SP, TYPE_DQ, GT>>,                      \* an opening marker tag
      <<SCRIPT_OPEN>>,
      <<SCRIPT_CLOSE>>,
      <<BODY_CLOSE>>,
      <<HEAD_TAG>>,
      <<SP>>,
      <<SCRIPT_OPEN, SP, TYPE_DQ, GT>> \o B64_AB \o <<SCRIPT_CLOSE>>,
      <<SCRIPT_OPEN, TYPE_SQ, GT, SP>> \o B64_AB \o <<SP, SCRIPT_CLOSE>>,
      <<SCRIPT_OPEN, SP, TYPE_DQ, GT, BANG, SCRIPT_CLOSE>>,
      <<SCRIPT_OPEN, SP, TYPE_UPPER, GT>> \o B64_AB \o <<SCRIPT_CLOSE>> }

RECURSIVE DocsUpTo(_)
DocsUpTo(n) ==
    IF n = 0 THEN {<<>>}
    ELSE DocsUpTo(n - 1) \cup {d \o f : d \in DocsUpTo(n - 1), f \in Fragments}

Docs == DocsUpTo(MaxFrags)

Payloads == {<<>>, <<65, 66>>, <<255>>}

NoResult == Err("None")

(***************************************************************************)
(* The handlers run on the caller's stream                                 *)
(***************************************************************************)
Entry(op, store_bytes, out, res) ==
    [op |-> op, store_bytes |-> store_bytes, input |-> asset, from |-> pos,
     output |-> out, result |-> res]

StoreIdle == pc = "idle" /\ UNCHANGED <<pc, orig, updated_html, temp_file>>

Init ==
    /\ asset \in Docs
    /\ pos = 0
    /\ output = <<>>
    /\ result = NoResult
    /\ hist = <<>>
    /\ pc = "idle"
    /\ orig = <<>>
    /\ updated_html = <<>>
    /\ temp_file = <<>>

\* detect_manifest_location rewinds, reads to the end and returns the payload
read_cai ==
    /\ Len(hist) < MaxOps
    /\ StoreIdle
    /\ result' = ReadCai(asset)
    /\ pos' = Len(asset)
    /\ output' = <<>>
    /\ hist' = Append(hist, Entry("read_cai", <<>>, <<>>, result'))
    /\ UNCHANGED asset

\* write_cai rewinds the input, reads it to the end and writes the updated
\* document to a fresh output stream, which the caller takes as the asset
write_cai(store_bytes) ==
    /\ Len(hist) < MaxOps
    /\ StoreIdle
    /\ output' = WriteCai(asset, store_bytes)
    /\ result' = Ok(<<>>, <<>>)
    /\ hist' = Append(hist, Entry("write_cai", store_bytes, output', result'))
    /\ asset' = output'
    /\ pos' = 0

\* get_object_locations_from_stream works on a buffer of its own
get_object_locations_from_stream ==
    /\ Len(hist) < MaxOps
    /\ StoreIdle
    /\ result' = GetObjectLocations(asset)
    /\ output' = add_required_segs_to_stream(asset).buffer
    /\ pos' = Len(asset)
    /\ hist' = Append(hist, Entry("get_object_locations_from_stream", <<>>, output', result'))
    /\ UNCHANGED asset

\* what read_to_string returns without a rewind: the rest of the stream
RemoveInput(html, at) == SubSeq(html, at + 1, Len(html))

\* remove_cai_store_from_stream reads the input from where it stands
remove_cai_store_from_stream ==
    /\ Len(hist) < MaxOps
    /\ StoreIdle
    /\ output' = RemoveCai(RemoveInput(asset, pos))
    /\ result' = Ok(<<>>, <<>>)
    /\ hist' = Append(hist, Entry("remove_cai_store_from_stream", <<>>, output', result'))
    /\ asset' = output'
    /\ pos' = 0

Next ==
    \/ read_cai
    \/ \E store_bytes \in Payloads : write_cai(store_bytes)
    \/ get_object_locations_from_stream
    \/ remove_cai_store_from_stream

Spec == Init /\ [][Next]_vars

(***************************************************************************)
(* save_cai_store and remove_cai_store, step by step                       *)
(***************************************************************************)
\* the handler that is running
Running == hist[Len(hist)]

\* save_cai_store: OpenOptions::new().read(true).open(asset_path)
save_cai_store(store_bytes) ==
    /\ pc = "idle"
    /\ Len(hist) < MaxOps
    /\ pc' = "opened"
    /\ orig' = asset
    /\ hist' = Append(hist, Entry("save_cai_store", store_bytes, <<>>, NoResult))
    /\ result' = NoResult
    /\ updated_html' = <<>>
    /\ temp_file' = <<>>
    /\ UNCHANGED <<asset, pos, output>>

\* remove_cai_store: File::open(asset_path)
remove_cai_store ==
    /\ pc = "idle"
    /\ Len(hist) < MaxOps
    /\ pc' = "opened"
    /\ orig' = asset
    /\ hist' = Append(hist, Entry("remove_cai_store", <<>>, <<>>, NoResult))
    /\ result' = NoResult
    /\ updated_html' = <<>>
    /\ temp_file' = <<>>
    /\ UNCHANGED <<asset, pos, output>>

\* tempfile_builder("c2pa_temp"): a new, empty temporary file
tempfile_builder ==
    /\ pc = "opened"
    /\ pc' = "temp_created"
    /\ temp_file' = <<>>
    /\ UNCHANGED <<asset, pos, output, result, hist, orig, updated_html>>

\* write_cai / remove_cai_store_from_stream on the newly opened file, up to
\* output_stream.rewind(): the whole document read and transformed
transform ==
    /\ pc = "temp_created"
    /\ pc' = "writing"
    /\ updated_html' =
           IF Running.op = "save_cai_store"
           THEN WriteCai(asset, Running.store_bytes)
           ELSE RemoveCai(RemoveInput(asset, 0))
    /\ UNCHANGED <<asset, pos, output, result, hist, orig, temp_file>>

\* variant: the output stream is the asset file itself
WriteNextInPlace(asset_file, temp, html) ==
    [asset |-> SubSeq(html, 1, Len(temp) + 1)
                   \o SubSeq(asset_file, Len(temp) + 2, Len(asset_file)),
     temp_file |-> Append(temp, html[Len(temp) + 1])]

\* one step of output_stream.write_all: the next lexeme goes to the temporary
\* file, the asset file is not written
WriteNext(asset_file, temp, html) ==
    [asset |-> asset_file, temp_file |-> Append(temp, html[Len(temp) + 1])]

write_all ==
    /\ pc = "writing"
    /\ temp_file # updated_html
    /\ asset' = WriteNext(asset, temp_file, updated_html).asset
    /\ temp_file' = WriteNext(asset, temp_file, updated_html).temp_file
    /\ UNCHANGED <<pos, output, result, hist, pc, orig, updated_html>>

\* rename_or_move(temp_file, asset_path): the temporary file takes the place
\* of the asset in one step
rename_or_move ==
    /\ pc = "writing"
    /\ temp_file = updated_html
    /\ asset' = temp_file
    /\ pc' = "idle"
    /\ result' = Ok(<<>>, <<>>)
    /\ UNCHANGED <<pos, output, hist, orig, updated_html, temp_file>>

\* any step of the handler fails and the error is returned with `?`; the
\* temporary file is dropped
io_error ==
    /\ pc # "idle"
    /\ pc' = "idle"
    /\ result' = Err("IoError")
    /\ updated_html' = <<>>
    /\ temp_file' = <<>>
    /\ UNCHANGED <<asset, pos, output, hist, orig>>

NextStore ==
    \/ \E store_bytes \in Payloads : save_cai_store(store_bytes)
    \/ remove_cai_store
    \/ tempfile_builder
    \/ transform
    \/ write_all
    \/ rename_or_move
    \/ io_error

\* the asset files of the step-by-step model are one fragment shorter
InitStore ==
    /\ Init
    /\ asset \in DocsUpTo(MaxFrags - 1)

SpecStore == InitStore /\ [][NextStore]_vars

(***************************************************************************)
(* Properties                                                              *)
(***************************************************************************)
\* Regex::find_iter of C2PA_REGEX_CAPTURE: the markers of a document
RECURSIVE MarkerCount(_, _)
MarkerCount(html, from) ==
    LET m == CaptureFrom(html, from)
    IN  IF ~m.found THEN 0 ELSE 1 + MarkerCount(html, m.end + 1)

\* capture group 1 of the first marker
MarkerBody(html) ==
    SubSeq(html, C2PA_REGEX_CAPTURE(html).open_end + 1, C2PA_REGEX_CAPTURE(html).end - 1)

\* a marker's opening tag with no </script> after it
HasUnclosedMarker(html) ==
    \E i \in 1..Len(html) :
        /\ ScriptTagEnd(html, i) # 0
        /\ ScriptCloseAfter(html, ScriptTagEnd(html, i)) = 0

\* the handler run k handlers before the latest one; every handler is the
\* latest one in the state it produces, so a property of the latest handlers
\* in every state is a property of all handlers
LatestFrom(k) == {i \in {Len(hist) - k} : i >= 1}

\* handler i was op and handler i + 1 was next
Ran(i, op, next) ==
    /\ i + 1 <= Len(hist)
    /\ hist[i].op = op
    /\ hist[i + 1].op = next

\* C1 as claimed: for every document and every non-empty payload P, read_cai
\* on the result of write_cai(doc, P) returns exactly P.
C1_RoundTripAnyDocument ==
    \A i \in LatestFrom(1) :
        Ran(i, "write_cai", "read_cai") /\ hist[i].store_bytes # <<>>
        => hist[i + 1].result = Ok(hist[i].store_bytes, <<>>)

\* C1 amended: for every document without an unclosed marker opening tag and
\* every non-empty payload P, read_cai on the result of write_cai(doc, P)
\* returns exactly P.
C1_RoundTrip ==
    \A i \in LatestFrom(1) :
        /\ Ran(i, "write_cai", "read_cai")
        /\ hist[i].store_bytes # <<>>
        /\ ~HasUnclosedMarker(hist[i].input)
        => hist[i + 1].result = Ok(hist[i].store_bytes, <<>>)

C1_Witness ==
    /\ Ran(1, "write_cai", "read_cai")
    /\ hist[1].store_bytes = <<255>>
    /\ MarkerCount(hist[1].input, 1) = 1
    /\ ~HasUnclosedMarker(hist[1].input)
    /\ result = Ok(<<255>>, <<>>)

\* C2 as claimed: for every document, write_cai twice leaves exactly one
\* marker, and it carries the base64 text of the second payload.
C2_OneMarkerAnyDocument ==
    \A i \in LatestFrom(1) :
        Ran(i, "write_cai", "write_cai")
        => /\ MarkerCount(hist[i + 1].output, 1) = 1
           /\ MarkerBody(hist[i + 1].output) = STANDARD_encode(hist[i + 1].store_bytes)

\* C2 amended: for every document that holds at most one marker, write_cai
\* twice leaves exactly one marker, and it carries the base64 text of the
\* second payload.
C2_OneMarker ==
    \A i \in LatestFrom(1) :
        Ran(i, "write_cai", "write_cai") /\ MarkerCount(hist[i].input, 1) <= 1
        => /\ MarkerCount(hist[i + 1].output, 1) = 1
           /\ MarkerBody(hist[i + 1].output) = STANDARD_encode(hist[i + 1].store_bytes)

C2_Witness ==
    /\ Ran(1, "write_cai", "write_cai")
    /\ MarkerCount(hist[1].input, 1) = 1
    /\ hist[1].store_bytes = <<65, 66>>
    /\ hist[2].store_bytes = <<255>>
    /\ MarkerCount(asset, 1) = 1
    /\ MarkerBody(asset) = <<"/", "w", "=", "=">>

\* the document after write_cai and remove_cai_store_from_stream holds no
\* marker and a scan of it finds no payload
NoManifestAfterRemove(i) ==
    /\ MarkerCount(hist[i + 1].output, 1) = 0
    /\ ~detect_manifest_location(hist[i + 1].output).some
    /\ ReadCai(hist[i + 1].output) = Err("JumbfNotFound")

\* a read_cai that follows handlers i and i + 1 returns JumbfNotFound
NotFoundAfter(i) ==
    hist[i + 2].op = "read_cai" => hist[i + 2].result = Err("JumbfNotFound")

\* C3 as claimed: for every document, write_cai followed by
\* remove_cai_store_from_stream leaves no marker anywhere.
C3_RemovedAnyDocument ==
    /\ \A i \in LatestFrom(1) :
           Ran(i, "write_cai", "remove_cai_store_from_stream")
           => NoManifestAfterRemove(i)
    /\ \A i \in LatestFrom(2) :
           Ran(i, "write_cai", "remove_cai_store_from_stream")
           => NotFoundAfter(i)

\* C3 amended: for every document that holds at most one marker, write_cai
\* followed by remove_cai_store_from_stream leaves no marker, so a scan finds
\* no payload and read_cai returns JumbfNotFound.
C3_Removed ==
    /\ \A i \in LatestFrom(1) :
           /\ Ran(i, "write_cai", "remove_cai_store_from_stream")
           /\ MarkerCount(hist[i].input, 1) <= 1
           => NoManifestAfterRemove(i)
    /\ \A i \in LatestFrom(2) :
           /\ Ran(i, "write_cai", "remove_cai_store_from_stream")
           /\ MarkerCount(hist[i].input, 1) <= 1
           => NotFoundAfter(i)

C3_Witness ==
    /\ Ran(1, "write_cai", "remove_cai_store_from_stream")
    /\ MarkerCount(hist[1].input, 1) = 1
    /\ hist[1].store_bytes # <<>>
    /\ MarkerCount(hist[1].output, 1) = 1
    /\ asset # <<>>
    /\ MarkerCount(asset, 1) = 0

\* the regions that hold byte b
RegionsAt(regions, b) ==
    {k \in 1..Len(regions) :
        regions[k].offset <= b /\ b < regions[k].offset + regions[k].length}

\* C4: when get_object_locations_from_stream succeeds, its three regions (one
\* Cai, two Other) hold every byte of the embedded document exactly once and
\* their lengths sum to its length; the embedded document is the input if it
\* carries a manifest and the placeholder-embedded copy otherwise.
C4_RegionsPartition ==
    \A i \in LatestFrom(0) :
        hist[i].op = "get_object_locations_from_stream" /\ hist[i].result.tag = "Ok"
        => LET r == hist[i].result.regions
               embedded == IF ReadCai(hist[i].input).tag = "Ok"
                           THEN hist[i].input
                           ELSE WriteCai(hist[i].input, PLACEHOLDER)
               len == ByteLen(embedded)
           IN  /\ hist[i].output = embedded
               /\ Len(r) = 3
               /\ Cardinality({k \in 1..3 : r[k].htype = "Cai"}) = 1
               /\ Cardinality({k \in 1..3 : r[k].htype = "Other"}) = 2
               /\ r[1].length + r[2].length + r[3].length = len
               /\ \A k \in 1..3 : r[k].offset + r[k].length <= len
               /\ \A b \in 0..(len - 1) : Cardinality(RegionsAt(r, b)) = 1

C4_Witness ==
    /\ hist # <<>>
    /\ hist[1].op = "get_object_locations_from_stream"
    /\ hist[1].result.tag = "Ok"
    /\ ReadCai(hist[1].input).tag = "JumbfNotFound"
    /\ hist[1].result.regions[2].length > 0
    /\ hist[1].result.regions[3].length > Len(SCRIPT_CLOSE)

\* C5 as claimed: for a document whose first marker has a non-empty body, the
\* Cai region starts at the first character of the encoded payload text and is
\* as long as that text.
C5_CaiRegionIsPayloadText ==
    \A i \in 1..Len(hist) :
        /\ hist[i].op = "get_object_locations_from_stream"
        /\ hist[i].result.tag = "Ok"
        /\ C2PA_REGEX_CAPTURE(hist[i].input).found
        /\ trim(MarkerBody(hist[i].input)) # <<>>
        => LET html == hist[i].input
               body == MarkerBody(html)
               lead == Len(body) - Len(trim_start(body))
               text_start == ByteOffset(html, C2PA_REGEX_CAPTURE(html).open_end + lead)
           IN  /\ hist[i].result.regions[1].htype = "Cai"
               /\ hist[i].result.regions[1].offset = text_start
               /\ hist[i].result.regions[1].length = ByteLen(trim(body))

\* C6: save_cai_store and remove_cai_store leave the asset file as it was
\* until the rename; the file only ever holds the original document or the
\* complete new one, and a handler that fails leaves the original.
C6_AllOrNothing ==
    /\ pc # "idle" => asset = orig
    /\ hist # <<>> =>
          \/ asset = orig
          \/ /\ pc = "idle"
             /\ result.tag = "Ok"
             /\ asset = IF Running.op = "save_cai_store"
                        THEN WriteCai(orig, Running.store_bytes)
                        ELSE RemoveCai(orig)
    /\ (hist # <<>> /\ result.tag = "IoError") => asset = orig
    /\ pc # "idle" => \E n \in 0..Len(updated_html) : temp_file = SubSeq(updated_html, 1, n)

C6_Witness ==
    /\ Len(hist) = 1
    /\ Running.op = "save_cai_store"
    /\ pc = "writing"
    /\ temp_file # <<>>
    /\ temp_file # updated_html
    /\ asset = orig
    /\ asset # <<>>
    /\ SubSeq(updated_html, 1, Len(temp_file)) # SubSeq(asset, 1, Len(temp_file))

\* the first marker of html has a body that is not blank and not base64
MalformedPayload(html) ==
    /\ C2PA_REGEX_CAPTURE(html).found
    /\ trim(MarkerBody(html)) # <<>>
    /\ ~STANDARD_decode(trim(MarkerBody(html))).ok

\* C7: when the first marker's body is non-empty after trimming and is not
\* valid base64, detect_manifest_location, read_cai and
\* get_object_locations_from_stream return the error and nothing else: no
\* payload, no JumbfNotFound, no regions.
C7_MalformedPayloadIsError ==
    \A i \in LatestFrom(0) :
        /\ hist[i].op \in {"read_cai", "get_object_locations_from_stream"}
        /\ MalformedPayload(hist[i].input)
        => LET found == detect_manifest_location(hist[i].input)
           IN  /\ hist[i].result = Err("InvalidAsset")
               /\ found.err
               /\ ~found.some
               /\ found.data = <<>>

C7_Witness ==
    /\ Len(hist) = 2
    /\ hist[1].op = "read_cai"
    /\ hist[2].op = "get_object_locations_from_stream"
    /\ MalformedPayload(asset)
    /\ hist[1].result.tag = "InvalidAsset"
    /\ result.tag = "InvalidAsset"

\* the document with the attribute keyword of every marker in lower case
LowerCase(html) ==
    [k \in 1..Len(html) |-> IF html[k] = TYPE_UPPER THEN TYPE_DQ ELSE html[k]]

\* C8 as claimed: a marker whose type keyword is written in upper case is
\* recognized by scan, embed and remove exactly as the lower-case marker is.
C8_KeywordCaseInsensitive ==
    \A i \in 1..Len(hist) :
        LET e == hist[i] IN
        /\ e.op = "read_cai" => e.result = ReadCai(LowerCase(e.input))
        /\ e.op = "write_cai" =>
               LowerCase(e.output) = WriteCai(LowerCase(e.input), e.store_bytes)
        /\ (e.op = "remove_cai_store_from_stream" /\ e.from = 0) =>
               LowerCase(e.output) = RemoveCai(LowerCase(e.input))

\* the lexemes of html that end at byte offset n or before it
BytePrefix(html, n) ==
    SubSeq(html, 1, Max({k \in 0..Len(html) : ByteOffset(html, k) <= n}))

C10_RemoveReadsWholeDocument ==
    \A i \in 1..Len(hist) :
        hist[i].op = "remove_cai_store_from_stream"
        => /\ hist[i].output = RemoveCai(hist[i].input)
           /\ MarkerCount(hist[i].input, 1) = 0 => hist[i].output = hist[i].input

====
